---- MODULE Spec2Model ----
(***************************************************************************)
(* crAnki: a command-line tool that appends one note and one card to an    *)
(* Anki collection (src/src/main.rs).  The store (the col row, the notes   *)
(* table and the cards table) outlives the process; every invocation of    *)
(* main reads the catalog, resolves the deck and the model by name, checks *)
(* the command and the number of field values, and then runs the two       *)
(* INSERT statements of write_new_entry_to_db one after the other, with no *)
(* transaction around them.                                                *)
(*                                                                         *)
(* Strings the program inspects are sequences of Unicode code points.      *)
(* Deck and model names are only compared for equality and stay TLA+       *)
(* strings.  Rows carry one history field, "by": the number of the         *)
(* invocation that inserted the row, 0 for a row that was in the store     *)
(* before the tool ran.                                                    *)
(***************************************************************************)
EXTENDS Integers, Sequences, FiniteSets, TLC

VARIABLES
    col,            \* the metadata row: decoded models and decks mappings
    notes,          \* the notes table, a set of rows
    cards,          \* the cards table, a set of rows
    pc,             \* where the current (or last) invocation of main is
    inv,            \* number of invocations started so far
    deck_name,      \* config.deck_name  : Option<String>
    model_name,     \* config.model_name : Option<String>
    free,           \* opts.free : command followed by its arguments
    models,         \* catalog built by extract_db_info : Vec<NoteModel>
    decks,          \* catalog built by extract_db_info : Vec<Deck>
    input_deck,     \* Option<&Deck>
    input_model,    \* Option<&NoteModel>
    timestamp,      \* Utc::now() read by write_new_entry_to_db, in ms
    notes0,         \* history: the notes table when the invocation started
    cards0          \* history: the cards table when the invocation started

vars == <<col, notes, cards, pc, inv, deck_name, model_name, free, models,
          decks, input_deck, input_model, timestamp, notes0, cards0>>

----------------------------------------------------------------------------
(* Bounds of the model. *)

MaxInvocations == 2     \* invocations of main in one behaviour
MaxArgs == 3            \* field values on one command line

(* Program constants. *)

UnitSeparator == 31     \* "\u{1f}"
MillisPerSecond == 1000 \* timestamp() against timestamp_millis()

----------------------------------------------------------------------------
(* Option<T> as a sequence of at most one element. *)

None == <<>>

Some(x) == <<x>>

IsSome(o) == Len(o) = 1

Unwrap(o) == o[1]

----------------------------------------------------------------------------
(* Strings as sequences of code points. *)

Str_add == <<97, 100, 100>>      \* "add"

Str_Add == <<65, 100, 100>>      \* "Add"

Str_rm == <<114, 109>>           \* "rm"

Str_d == <<100>>                 \* "d"

Str_x == <<120>>                 \* "x"

(* char::to_lowercase on the ASCII range *)
LowerChar(c) == IF c >= 65 /\ c <= 90 THEN c + 32 ELSE c

(* str::to_lowercase *)
ToLowercase(s) == [i \in 1..Len(s) |-> LowerChar(s[i])]

RECURSIVE Join_Trailing(_, _)
(* Join with sep after every element *)
Join_Trailing(list, sep) ==
    IF list = <<>> THEN <<>>
    ELSE list[1] \o sep \o Join_Trailing(Tail(list), sep)

RECURSIVE Join(_, _)
(* [String]::join(sep): the elements with sep between neighbours *)
Join(list, sep) ==
    IF list = <<>> THEN <<>>
    ELSE IF Len(list) = 1 THEN list[1]
    ELSE list[1] \o sep \o Join(Tail(list), sep)

HexDigit(d) == IF d < 10 THEN 48 + d ELSE 87 + d

RECURSIVE HexLower(_)
(* format!("{:x}", n): lowercase hexadecimal without leading zeros *)
HexLower(n) ==
    IF n < 16 THEN <<HexDigit(n)>>
    ELSE HexLower(n \div 16) \o <<HexDigit(n % 16)>>

(* The first four bytes of sha1::Sha1::from(s).digest().bytes(), for the   *)
(* strings that occur as a first field value:                              *)
(*   SHA-1("d") = 3c363836...   SHA-1("x") = 11f6ad8e...                   *)
Sha1First4(s) ==
    CASE s = Str_d -> <<60, 54, 56, 54>>
      [] s = Str_x -> <<17, 246, 173, 142>>

(* u32::from_be_bytes widened to i64 *)
FromBeBytes(b) == ((b[1] * 256 + b[2]) * 256 + b[3]) * 256 + b[4]

FirstFieldSha(s) == FromBeBytes(Sha1First4(s))

----------------------------------------------------------------------------
(* The command line and the configuration: the inputs of one invocation.   *)

FieldValues == {Str_d, Str_x}

RECURSIVE ArgLists(_)
(* the lists of at most n field values in which neighbours differ *)
ArgLists(n) ==
    IF n = 0 THEN {<<>>}
    ELSE LET shorter == ArgLists(n - 1)
             longer == {Append(t, x) : t \in shorter, x \in FieldValues}
         IN  shorter \cup
                {u \in longer : \A i \in 1..(Len(u) - 1) : u[i] # u[i + 1]}

Commands == {Str_add, Str_Add, Str_rm}

FreeArgs == {<<>>} \cup {<<c>> \o a : c \in Commands, a \in ArgLists(MaxArgs)}

DeckNameInputs == {None, Some("Default"), Some("French"), Some("NoSuchDeck")}

ModelNameInputs == {None, Some("Basic"), Some("Vocab"), Some("Empty"), Some("NoSuchModel")}

Clock == {1999, 2000}

RandomValues == {10, 255}

----------------------------------------------------------------------------
(* The store.  The schema is the Anki one the program is written against   *)
(* (main.rs:172-173): notes.id and cards.id are INTEGER PRIMARY KEY, so an *)
(* INSERT of an id that is present fails and changes nothing; the other    *)
(* columns carry no constraint.                                            *)

(* serde_json::from_str::<HashMap<u64, DBNoteModel>> of col.models *)
DBModels ==
    (11 :> [id |-> 11, name |-> "Basic", did |-> 1,
            flds |-> <<[name |-> "Front", ord |-> 0], [name |-> "Back", ord |-> 1]>>]) @@
    (12 :> [id |-> 12, name |-> "Vocab", did |-> 2,
            flds |-> <<[name |-> "Word", ord |-> 0]>>]) @@
    (13 :> [id |-> 13, name |-> "Empty", did |-> 1, flds |-> <<>>])

(* serde_json::from_str::<HashMap<u64, DBDeck>> of col.decks *)
DBDecks ==
    (1 :> [id |-> 1, name |-> "Default"]) @@
    (2 :> [id |-> 2, name |-> "French"])

ColRow == [models |-> DBModels, decks |-> DBDecks]

(* Rows written by the original application before the tool ran: a note of *)
(* model Basic with its card in deck Default, a note whose model is no     *)
(* longer in col.models, and a card whose deck is no longer in col.decks   *)
(* and whose id is a value the clock can read again.                       *)
OldNotes ==
    { [id |-> 1500, guid |-> <<102>>, mid |-> 11, mod |-> 1, usn |-> 0, tags |-> <<>>,
       flds |-> <<120, 31, 100>>, sfld |-> Str_x, csum |-> 301378958,
       flags |-> 0, data |-> <<>>, by |-> 0],
      [id |-> 1600, guid |-> <<97>>, mid |-> 77, mod |-> 1, usn |-> 0, tags |-> <<>>,
       flds |-> Str_d, sfld |-> Str_d, csum |-> 1010186294,
       flags |-> 0, data |-> <<>>, by |-> 0] }

OldCards ==
    { [id |-> 1500, nid |-> 1500, did |-> 1, ord |-> 0, mod |-> 1, usn |-> 0,
       type |-> 2, queue |-> 2, due |-> 40, ivl |-> 3, factor |-> 2500, reps |-> 4,
       lapses |-> 1, left |-> 0, odue |-> 0, odid |-> 0, flags |-> 0,
       data |-> <<>>, by |-> 0],
      [id |-> 1999, nid |-> 1500, did |-> 9, ord |-> 1, mod |-> 1, usn |-> 0,
       type |-> 0, queue |-> 0, due |-> 7, ivl |-> 0, factor |-> 0, reps |-> 0,
       lapses |-> 0, left |-> 0, odue |-> 0, odid |-> 0, flags |-> 0,
       data |-> <<>>, by |-> 0] }

InitStores == {[notes |-> {}, cards |-> {}], [notes |-> OldNotes, cards |-> OldCards]}

(* SqlInsert as INSERT OR REPLACE: the row that had the id is dropped *)
SqlInsert_Replace(table, row) ==
    [ok |-> TRUE, table |-> {r \in table : r.id # row.id} \cup {row}]

(* SqlInsert on a table without a primary key: every row is accepted *)
SqlInsert_NoKey(table, row) == [ok |-> TRUE, table |-> table \cup {row}]

(* INSERT INTO table ... VALUES(row): a row whose id is present fails the  *)
(* statement and leaves the table as it is                                 *)
SqlInsert(table, row) ==
    IF \E r \in table : r.id = row.id
    THEN [ok |-> FALSE, table |-> table]
    ELSE [ok |-> TRUE, table |-> table \cup {row}]

(* SELECT did, COUNT( * ) AS count FROM cards GROUP BY did *)
CardGroups(table) ==
    {<<d, Cardinality({c \in table : c.did = d})>> : d \in {c.did : c \in table}}

(* SELECT mid, COUNT( * ) AS count FROM notes GROUP BY mid *)
NoteGroups(table) ==
    {<<m, Cardinality({n \in table : n.mid = m})>> : m \in {n.mid : n \in table}}

----------------------------------------------------------------------------
(* extract_db_info *)

RECURSIVE InKeyOrder(_, _)
InKeyOrder(map, keys) ==
    IF keys = {} THEN <<>>
    ELSE LET k == CHOOSE x \in keys : \A y \in keys : x <= y
         IN  <<map[k]>> \o InKeyOrder(map, keys \ {k})

(* the order in which `for (_, v) in map` visits the values.  A HashMap    *)
(* leaves it unspecified; the ids and the names in col are unique, so the  *)
(* order decides no lookup, and the model visits the keys in ascending     *)
(* order.                                                                  *)
HashMapOrder(map) == InKeyOrder(map, DOMAIN map)

NewNoteModel(model) ==
    [id |-> model.id, fields |-> Len(model.flds), deck_id |-> model.did,
     name |-> model.name, note_count |-> 0]

NewDeck(deck) == [id |-> deck.id, name |-> deck.name, card_count |-> 0]

(* `for x in list.iter_mut() { if x.id == id { ...; break; } }`: the index  *)
(* of the entry the loop updates, 0 when no entry has the id               *)
FirstWithId(list, id) ==
    IF \E i \in 1..Len(list) : list[i].id = id
    THEN CHOOSE i \in 1..Len(list) :
            /\ list[i].id = id
            /\ \A j \in 1..(i - 1) : list[j].id # id
    ELSE 0

(* FoldedCount adding 1 for a group instead of its count *)
FoldedCount_PerGroup(list, groups, i) ==
    Cardinality({g \in groups : FirstWithId(list, g[1]) = i})

(* the sum of the counts of the groups that the loop folds into entry i *)
FoldedCount(list, groups, i) ==
    LET mine == {g \in groups : FirstWithId(list, g[1]) = i}
        RECURSIVE Total(_)
        Total(G) == IF G = {} THEN 0
                    ELSE LET g == CHOOSE h \in G : TRUE
                         IN  g[2] + Total(G \ {g})
    IN  Total(mine)

ExtractModels(table, order) ==
    LET fresh == [i \in 1..Len(order) |-> NewNoteModel(order[i])]
    IN  [i \in 1..Len(fresh) |->
            [fresh[i] EXCEPT !.note_count = @ + FoldedCount(fresh, NoteGroups(table), i)]]

ExtractDecks(table, order) ==
    LET fresh == [i \in 1..Len(order) |-> NewDeck(order[i])]
    IN  [i \in 1..Len(fresh) |->
            [fresh[i] EXCEPT !.card_count = @ + FoldedCount(fresh, CardGroups(table), i)]]

----------------------------------------------------------------------------
(* main: name resolution and command dispatch *)

(* FindByName falling back to the first catalog entry *)
FindByName_Fallback(list, name) ==
    IF IsSome(name) /\ \E i \in 1..Len(list) : list[i].name = Unwrap(name)
    THEN Some(list[CHOOSE i \in 1..Len(list) : list[i].name = Unwrap(name)])
    ELSE IF list # <<>> THEN Some(list[1]) ELSE None

(* the first catalog entry with the name, None without a name or a match *)
FindByName(list, name) ==
    IF IsSome(name) /\ \E i \in 1..Len(list) : list[i].name = Unwrap(name)
    THEN Some(list[CHOOSE i \in 1..Len(list) :
                    /\ list[i].name = Unwrap(name)
                    /\ \A j \in 1..(i - 1) : list[j].name # Unwrap(name)])
    ELSE None

Command(fr) == fr[1]

CommandArgs(fr) == Tail(fr)

(* DispatchTarget rejecting only too few field values *)
DispatchTarget_FewerOnly(model, fr) ==
    IF Len(fr) < 1 THEN "exit_usage"
    ELSE IF ToLowercase(fr[1]) # Str_add THEN "exit_command"
    ELSE IF Len(Tail(fr)) < model.fields THEN "exit_fields"
    ELSE "write"

(* where main goes with the resolved model and the free arguments: an     *)
(* exit, or the call of write_new_entry_to_db                              *)
DispatchTarget(model, fr) ==
    IF Len(fr) < 1 THEN "exit_usage"
    ELSE IF ToLowercase(Command(fr)) # Str_add THEN "exit_command"
    ELSE IF Len(CommandArgs(fr)) # model.fields THEN "exit_fields"
    ELSE "write"

----------------------------------------------------------------------------
(* write_new_entry_to_db *)

(* NoteRow with the bindings of mid and mod exchanged *)
NoteRow_MidModSwapped(command_args, model_id, timestamp_millis, rnd, who) ==
    [id    |-> timestamp_millis,
     guid  |-> HexLower(rnd),
     mid   |-> timestamp_millis \div MillisPerSecond,
     mod   |-> model_id,
     usn   |-> -1,
     tags  |-> <<>>,
     flds  |-> Join(command_args, <<UnitSeparator>>),
     sfld  |-> command_args[1],
     csum  |-> FirstFieldSha(command_args[1]),
     flags |-> 0,
     data  |-> <<>>,
     by    |-> who]

(* the row of the first INSERT *)
NoteRow(command_args, model_id, timestamp_millis, rnd, who) ==
    [id    |-> timestamp_millis,
     guid  |-> HexLower(rnd),
     mid   |-> model_id,
     mod   |-> timestamp_millis \div MillisPerSecond,
     usn   |-> -1,
     tags  |-> <<>>,
     flds  |-> Join(command_args, <<UnitSeparator>>),
     sfld  |-> command_args[1],
     csum  |-> FirstFieldSha(command_args[1]),
     flags |-> 0,
     data  |-> <<>>,
     by    |-> who]

(* CardRow with nid bound to the seconds instead of the milliseconds *)
CardRow_NidSeconds(deck_id, timestamp_millis, who) ==
    [id     |-> timestamp_millis,
     nid    |-> timestamp_millis \div MillisPerSecond,
     did    |-> deck_id,
     ord    |-> 0,
     mod    |-> timestamp_millis \div MillisPerSecond,
     usn    |-> -1,
     type   |-> 0,
     queue  |-> 0,
     due    |-> timestamp_millis,
     ivl    |-> 0,
     factor |-> 0,
     reps   |-> 0,
     lapses |-> 0,
     left   |-> 0,
     odue   |-> 0,
     odid   |-> 0,
     flags  |-> 0,
     data   |-> <<48>>,
     by     |-> who]

(* the row of the second INSERT; data is a text column, the bound integer  *)
(* 0 is stored as its text "0"                                             *)
CardRow(deck_id, timestamp_millis, who) ==
    [id     |-> timestamp_millis,
     nid    |-> timestamp_millis,
     did    |-> deck_id,
     ord    |-> 0,
     mod    |-> timestamp_millis \div MillisPerSecond,
     usn    |-> -1,
     type   |-> 0,
     queue  |-> 0,
     due    |-> timestamp_millis,
     ivl    |-> 0,
     factor |-> 0,
     reps   |-> 0,
     lapses |-> 0,
     left   |-> 0,
     odue   |-> 0,
     odid   |-> 0,
     flags  |-> 0,
     data   |-> <<48>>,
     by     |-> who]

----------------------------------------------------------------------------
(* The state machine.  One invocation of main is a run of the steps below; *)
(* an input is drawn where main first looks at it.                         *)

Stopped == {"idle", "exit_deck", "exit_model", "exit_usage", "exit_command",
            "exit_fields", "panic_index", "panic_note", "panic_card",
            "killed", "done"}

Init ==
    /\ col = ColRow
    /\ \E st \in InitStores :
          /\ notes = st.notes
          /\ cards = st.cards
          /\ notes0 = st.notes
          /\ cards0 = st.cards
    /\ pc = "idle"
    /\ inv = 0
    /\ deck_name = None
    /\ model_name = None
    /\ free = <<>>
    /\ models = <<>>
    /\ decks = <<>>
    /\ input_deck = None
    /\ input_model = None
    /\ timestamp = 0

(* A new process: the options and the configuration are parsed, the        *)
(* database is opened and extract_db_info builds the catalog.              *)
Start ==
    /\ pc \in Stopped
    /\ inv < MaxInvocations
    /\ inv' = inv + 1
    /\ models' = ExtractModels(notes, HashMapOrder(col.models))
    /\ decks' = ExtractDecks(cards, HashMapOrder(col.decks))
    /\ pc' = "resolve_deck"
    /\ deck_name' = None
    /\ model_name' = None
    /\ free' = <<>>
    /\ input_deck' = None
    /\ input_model' = None
    /\ timestamp' = 0
    /\ notes0' = notes
    /\ cards0' = cards
    /\ UNCHANGED <<col, notes, cards>>

(* main looks the deck name up in the catalog; without a match it lists    *)
(* the valid names and exits.                                              *)
ResolveDeck(dn) ==
    /\ pc = "resolve_deck"
    /\ deck_name' = dn
    /\ input_deck' = FindByName(decks, dn)
    /\ pc' = IF IsSome(input_deck') THEN "resolve_model" ELSE "exit_deck"
    /\ UNCHANGED <<col, notes, cards, inv, model_name, free, models, decks,
                   input_model, timestamp, notes0, cards0>>

(* main looks the model name up in the catalog; without a match it lists   *)
(* the valid names and exits.                                              *)
ResolveModel(mn) ==
    /\ pc = "resolve_model"
    /\ model_name' = mn
    /\ input_model' = FindByName(models, mn)
    /\ pc' = IF IsSome(input_model') THEN "dispatch" ELSE "exit_model"
    /\ UNCHANGED <<col, notes, cards, inv, deck_name, free, models, decks,
                   input_deck, timestamp, notes0, cards0>>

(* main checks that there is a command, that it is "add" in any case, and  *)
(* that the number of field values is the model's; then it calls the       *)
(* writer.                                                                 *)
Dispatch(fr) ==
    /\ pc = "dispatch"
    /\ free' = fr
    /\ pc' = DispatchTarget(Unwrap(input_model), fr)
    /\ UNCHANGED <<col, notes, cards, inv, deck_name, model_name, models, decks,
                   input_deck, input_model, timestamp, notes0, cards0>>

(* write_new_entry_to_db up to the end of the first INSERT: the clock and  *)
(* the random source are read, command_args[0] is indexed, and the note    *)
(* statement is run; its failure is unwrapped.                             *)
InsertNote ==
    /\ pc = "write"
    /\ \E t \in Clock, r \in RandomValues :
          /\ timestamp' = t
          /\ IF CommandArgs(free) = <<>>
             THEN /\ pc' = "panic_index"
                  /\ UNCHANGED notes
             ELSE LET row == NoteRow(CommandArgs(free), Unwrap(input_model).id, t, r, inv)
                      res == SqlInsert(notes, row)
                  IN  /\ notes' = res.table
                      /\ pc' = IF res.ok THEN "note_done" ELSE "panic_note"
    /\ UNCHANGED <<col, cards, inv, deck_name, model_name, free, models, decks,
                   input_deck, input_model, notes0, cards0>>

(* write_new_entry_to_db from the second prepare to its return, and main   *)
(* to its end: the card statement is run; its failure is unwrapped.        *)
InsertCard ==
    /\ pc = "note_done"
    /\ LET res == SqlInsert(cards, CardRow(Unwrap(input_deck).id, timestamp, inv))
       IN  /\ cards' = res.table
           /\ pc' = IF res.ok THEN "done" ELSE "panic_card"
    /\ UNCHANGED <<col, notes, inv, deck_name, model_name, free, models, decks,
                   input_deck, input_model, timestamp, notes0, cards0>>

(* the process stops between the two statements; nothing is rolled back *)
Kill ==
    /\ pc = "note_done"
    /\ pc' = "killed"
    /\ UNCHANGED <<col, notes, cards, inv, deck_name, model_name, free, models,
                   decks, input_deck, input_model, timestamp, notes0, cards0>>

Next ==
    \/ Start
    \/ \E dn \in DeckNameInputs : ResolveDeck(dn)
    \/ \E mn \in ModelNameInputs : ResolveModel(mn)
    \/ \E fr \in FreeArgs : Dispatch(fr)
    \/ InsertNote
    \/ InsertCard
    \/ Kill

Spec == Init /\ [][Next]_vars

----------------------------------------------------------------------------
(* Vocabulary of the properties. *)

(* main has passed the deck lookup *)
DeckLookedUp == pc \notin {"idle", "resolve_deck"}

(* main has passed the model lookup *)
ModelLookedUp == pc \notin {"idle", "resolve_deck", "exit_deck", "resolve_model"}

(* main has read the free arguments *)
Dispatched == pc \notin {"idle", "resolve_deck", "exit_deck", "resolve_model",
                         "exit_model", "dispatch"}

(* write_new_entry_to_db has been entered *)
WriterEntered == pc \in {"write", "note_done", "panic_index", "panic_note",
                         "panic_card", "killed", "done"}

StoreUntouched == notes = notes0 /\ cards = cards0

IsAdd == Len(free) >= 1 /\ ToLowercase(Command(free)) = Str_add

DeckNames == {col.decks[k].name : k \in DOMAIN col.decks}

ModelNames == {col.models[k].name : k \in DOMAIN col.models}

DeckIds == {col.decks[k].id : k \in DOMAIN col.decks}

ModelIds == {col.models[k].id : k \in DOMAIN col.models}

Known(name, names) == IsSome(name) /\ Unwrap(name) \in names

(* the catalog extract_db_info returns on the store as it is now *)
ModelsNow == ExtractModels(notes, HashMapOrder(col.models))

DecksNow == ExtractDecks(cards, HashMapOrder(col.decks))

RECURSIVE SumNoteCount(_)
SumNoteCount(list) ==
    IF list = <<>> THEN 0 ELSE Head(list).note_count + SumNoteCount(Tail(list))

RECURSIVE SumCardCount(_)
SumCardCount(list) ==
    IF list = <<>> THEN 0 ELSE Head(list).card_count + SumCardCount(Tail(list))

NewNotes == notes \ notes0

NewCards == cards \ cards0

----------------------------------------------------------------------------
(* C1: an add whose number of field values differs from the field count of *)
(* the resolved model is rejected before write_new_entry_to_db is entered  *)
(* (the clock has not been read), and notes and cards hold the rows they   *)
(* held when the invocation started.                                       *)
C1_FieldCountEnforced ==
    (Dispatched /\ IsAdd /\ Len(CommandArgs(free)) # Unwrap(input_model).fields)
        => /\ pc = "exit_fields"
           /\ ~WriterEntered
           /\ timestamp = 0
           /\ StoreUntouched

C1_Witness ==
    /\ pc = "exit_fields"
    /\ Len(CommandArgs(free)) > Unwrap(input_model).fields
    /\ Unwrap(input_model).fields > 0
    /\ notes # {}

(* C2: a note written by the tool is in the store if and only if the card  *)
(* written with it is, in every reachable state.                           *)
C2_TogetherOrNotAtAll ==
    /\ \A n \in notes : n.by # 0 => \E c \in cards : c.by = n.by /\ c.nid = n.id
    /\ \A c \in cards : c.by # 0 => \E n \in notes : n.by = c.by /\ n.id = c.nid

(* C3: every card written by the tool names, in nid, a note that is in the *)
(* store and that the same invocation inserted in an earlier step.         *)
C3_CardReferencesEarlierNote ==
    /\ [](\A c \in cards : c.by # 0 =>
            \E n \in notes : n.id = c.nid /\ n.by = c.by)
    /\ [][\A c \in cards' \ cards :
            \E n \in notes : n.id = c.nid /\ n.by = c.by /\ n \in notes']_vars

C3_Witness ==
    /\ pc = "done"
    /\ inv = 2
    /\ \E c \in cards : c.by = 1
    /\ \E c \in cards : c.by = 2

(* C4, as claimed: the note counts of the catalog sum to the number of     *)
(* rows of notes and the card counts to the number of rows of cards, on    *)
(* every store.                                                            *)
C4_SumsEqualRowCounts ==
    /\ SumNoteCount(ModelsNow) = Cardinality(notes)
    /\ SumCardCount(DecksNow) = Cardinality(cards)

(* C4, amended: the note counts of the catalog sum to the number of notes  *)
(* whose mid is the id of a model of the catalog, and the card counts to   *)
(* the number of cards whose did is the id of a deck of the catalog; this  *)
(* holds of the catalog of every store and of the catalog an invocation    *)
(* has read.                                                               *)
C4_SumsEqualMatchedRowCounts ==
    /\ SumNoteCount(ModelsNow) = Cardinality({n \in notes : n.mid \in ModelIds})
    /\ SumCardCount(DecksNow) = Cardinality({c \in cards : c.did \in DeckIds})
    /\ pc # "idle" =>
          /\ SumNoteCount(models) = Cardinality({n \in notes0 : n.mid \in ModelIds})
          /\ SumCardCount(decks) = Cardinality({c \in cards0 : c.did \in DeckIds})

C4_Witness ==
    /\ pc = "done"
    /\ \E n \in notes : n.mid \notin ModelIds
    /\ \E c \in cards : c.did \notin DeckIds
    /\ SumNoteCount(ModelsNow) >= 2
    /\ SumCardCount(DecksNow) >= 2

(* C5: after a successful add, extract_db_info counts one note more for    *)
(* the resolved model and one card more for the resolved deck than the     *)
(* invocation read at its start, and the same as then for every other      *)
(* model and deck.                                                         *)
C5_UsageCountsStepByOne ==
    pc = "done" =>
        /\ \A i \in 1..Len(models) :
              /\ ModelsNow[i].id = models[i].id
              /\ ModelsNow[i].note_count =
                    models[i].note_count +
                    (IF models[i].id = Unwrap(input_model).id THEN 1 ELSE 0)
        /\ \A i \in 1..Len(decks) :
              /\ DecksNow[i].id = decks[i].id
              /\ DecksNow[i].card_count =
                    decks[i].card_count +
                    (IF decks[i].id = Unwrap(input_deck).id THEN 1 ELSE 0)

C5_Witness ==
    /\ pc = "done"
    /\ \E i \in 1..Len(models) :
          models[i].id # Unwrap(input_model).id /\ models[i].note_count > 0
    /\ \E i \in 1..Len(decks) :
          decks[i].id # Unwrap(input_deck).id /\ decks[i].card_count > 0

RECURSIVE Concatenated(_, _, _)
(* list[1] sep list[2] sep ... list[k], built from the left *)
Concatenated(list, sep, k) ==
    IF k = 1 THEN list[1]
    ELSE Concatenated(list, sep, k - 1) \o <<sep>> \o list[k]

(* C6: a successful write persists one note whose sfld is the first field  *)
(* value and whose flds is the field values with one U+001F between        *)
(* neighbours, and one card whose id, nid and due are the id of that note, *)
(* with ord 0, usn -1 and every other scheduling field 0.                  *)
C6_RowContents ==
    pc = "done" =>
        /\ \A n \in NewNotes :
              /\ n.sfld = CommandArgs(free)[1]
              /\ n.flds = Concatenated(CommandArgs(free), 31, Len(CommandArgs(free)))
              /\ \A c \in NewCards :
                    /\ c.id = n.id
                    /\ c.nid = n.id
                    /\ c.due = n.id
                    /\ c.ord = 0
                    /\ c.usn = -1
                    /\ <<c.type, c.queue, c.ivl, c.factor, c.reps, c.lapses,
                         c.left, c.odue, c.odid>> = <<0, 0, 0, 0, 0, 0, 0, 0, 0>>
        /\ NewNotes # {}
        /\ NewCards # {}

C6_Witness ==
    /\ pc = "done"
    /\ Len(CommandArgs(free)) = 2
    /\ CommandArgs(free)[1] # CommandArgs(free)[2]

(* C7: no step removes or changes a row of notes or of cards or changes    *)
(* the col row, and a successful write leaves the store with exactly one   *)
(* note and one card more than the invocation found.                       *)
C7_OnlyTwoRowsAdded ==
    [][/\ notes \subseteq notes'
       /\ cards \subseteq cards'
       /\ col' = col
       /\ pc' = "done" =>
             /\ notes0' \subseteq notes'
             /\ cards0' \subseteq cards'
             /\ Cardinality(notes' \ notes0') = 1
             /\ Cardinality(cards' \ cards0') = 1]_vars

C7_Witness ==
    /\ pc = "done"
    /\ notes0 # {}
    /\ cards0 # {}
    /\ inv = 2

(* C8: the writer is entered only with a deck and a model that were found  *)
(* in the catalog under the requested names; a deck name or a model name   *)
(* that is missing or matches no catalog entry ends the invocation at the  *)
(* lookup, with the store as the invocation found it.                      *)
C8_ResolutionGatesWriter ==
    /\ WriterEntered =>
          /\ Known(deck_name, DeckNames)
          /\ Known(model_name, ModelNames)
          /\ IsSome(input_deck) /\ Unwrap(input_deck).name = Unwrap(deck_name)
          /\ IsSome(input_model) /\ Unwrap(input_model).name = Unwrap(model_name)
    /\ (DeckLookedUp /\ ~Known(deck_name, DeckNames)) =>
          pc = "exit_deck" /\ StoreUntouched
    /\ (ModelLookedUp /\ ~Known(model_name, ModelNames)) =>
          pc = "exit_model" /\ StoreUntouched

C8_Witness ==
    /\ pc = "exit_model"
    /\ model_name = Some("NoSuchModel")
    /\ IsSome(input_deck)
    /\ notes # {}

C10_SortFieldDefined == pc # "panic_index"

====
